---- MODULE Spec2Model ----
(***************************************************************************)
(* Model of the WasmEdge HTTP service                                      *)
(* (src/backend/docker/wasmedge-service/src/main.rs).                      *)
(*                                                                         *)
(* The service has two routes: POST /execute (execute_wasm) and            *)
(* GET /health (health_check).  execute_wasm is an async fn without any    *)
(* await point: once a worker thread of the HTTP server starts it, the     *)
(* worker runs it to its return.  It decodes the module, builds a WasmEdge *)
(* configuration, creates a Vm, drives it through load, validate,          *)
(* instantiate and run_func, and turns the result into an HTTP response.   *)
(*                                                                         *)
(* The WasmEdge engine and the base64 decoder are libraries: their         *)
(* behaviour on a module is modelled by what kind of module it is (see     *)
(* Modules); failures of the environment (ConfigBuilder::build, Vm::new)   *)
(* are nondeterministic.                                                    *)
(***************************************************************************)
EXTENDS Integers, Sequences, FiniteSets, TLC

(* ----------------------------- bounds --------------------------------- *)
\* number of /execute calls the model follows
NCalls == 2
\* number of worker threads of the HTTP server (HttpServer::new, default:
\* one per core)
NWorkers == 2
\* largest elapsed time (ms) the model counts while a guest runs
MaxTime == 2

Calls == 1..NCalls
VmIds == 1..NCalls

(* ----------------------------- values --------------------------------- *)
\* Option<T>: None is the empty sequence, Some(x) the one-element sequence
None == <<>>
Some(x) == <<x>>
IsSome(o) == o # None
Unwrap(o) == o[1]

\* The kinds of wasm payload a request can carry.
\*   not-base64        the wasm string is not valid base64
\*   malformed         bytes that are no wasm binary (load fails)
\*   ill-typed         loads, fails validation
\*   unresolved-import validates, fails instantiation
\*   ret-empty         exports main, which returns no value
\*   ret-value         exports main, which returns one value
\*   trap              exports main, which traps
\*   loop              exports main, which never returns
Modules == {"not-base64", "malformed", "ill-typed", "unresolved-import",
            "ret-empty", "ret-value", "trap", "loop"}

\* serde_json::Value inputs; the third is the value the handler itself
\* answers with when a guest returns a value (line 126)
Inputs == {[v |-> 1], [v |-> 2], [result |-> "execution successful"]}
FunctionNames == {None, Some("main"), Some("f")}
Limits == {None, Some(1)}

\* struct ExecuteRequest
Requests == [wasm : Modules, input : Inputs, function_name : FunctionNames,
             memory_limit : Limits, timeout : Limits]

NoReq == [wasm |-> "none"]

\* requests of the concurrent specification: limits and function name
\* omitted; a payload that fails to decode, one that fails to load, two
\* modules that return and one that does not; the second input for the module whose run echoes its input
ConcModules == {"not-base64", "malformed", "ret-empty", "ret-value", "loop"}
ConcRequests == {r \in Requests :
                   /\ r.wasm \in ConcModules
                   /\ r.function_name = None
                   /\ r.memory_limit = None
                   /\ r.timeout = None
                   /\ r.input \in {[v |-> 1], [v |-> 2]}
                   /\ (r.input = [v |-> 2] => r.wasm = "ret-empty")}

VARIABLES
  req,      \* req[c]: the ExecuteRequest of call c, NoReq before it arrives
  pc,       \* pc[c]: where call c is in execute_wasm
  bytes,    \* bytes[c]: wasm_bytes, the decoded module (None before decode)
  config,   \* config[c]: the Config built for the call (None before)
  vm,       \* vm[c]: the Vm the call owns (None when it owns none)
  heap,     \* heap[v]: the Vm instance v, or NoVm when no such instance exists
  elapsed,  \* elapsed[c]: start_time.elapsed() in ms
  hist,     \* hist[c]: the steps attempted by call c, in order, with results
  args,     \* args[c]: the call vm.run_func(func, params) made (None before)
  resp,     \* resp[c]: the HTTP response of call c, NoResp before
  health    \* state of one GET /health request

vars == <<req, pc, bytes, config, vm, heap, elapsed, hist, args, resp, health>>

NoVm == [stage |-> "none", module |-> "none"]
NoResp == [kind |-> "none"]

(* ------------------------ library behaviour --------------------------- *)
\* Result<T, E>
Ok(x) == [ok |-> TRUE, val |-> x]
Err(e) == [ok |-> FALSE, err |-> e]

\* (variant: a decoder that lets every string through)
base64_decode_lenient(w) == Ok(w)
\* base64::decode(&req.wasm)
base64_decode(w) ==
  IF w = "not-base64" THEN Err("Invalid byte 33, offset 0.") ELSE Ok(w)

\* ConfigBuilder::new(CommonConfigOptions::default())
\*   .with_host_registration_config(HostRegistrationConfigOptions::default().wasi(true))
\* The builder is given the default options and WASI; no field of the
\* request reaches it, so the configuration carries no limit of the request.
BuiltConfig(r) == [wasi |-> TRUE, memory_limit |-> None, timeout |-> None]

\* vm.load_wasm_from_bytes(&wasm_bytes)
load_wasm_from_bytes(b) ==
  IF b = "malformed" THEN Err("magic header not detected") ELSE Ok(b)

\* vm.validate(), on a Vm in stage st holding module m: the engine refuses
\* a Vm that is not in the stage the operation needs
validate(st, m) ==
  IF st # "Loaded" THEN Err("wrong VM workflow")
  ELSE IF m = "ill-typed" THEN Err("type mismatch") ELSE Ok(m)

\* vm.instantiate()
instantiate(st, m) ==
  IF st # "Validated" THEN Err("wrong VM workflow")
  ELSE IF m = "unresolved-import" THEN Err("unknown import") ELSE Ok(m)

\* the functions an instantiated module exports
Exports(m) ==
  IF m \in {"ret-empty", "ret-value", "trap", "loop"} THEN {"main"} ELSE {}

\* whether the guest function of module m ever returns
Returns(m) == m \in {"ret-empty", "ret-value", "trap"}

\* what vm.run_func yields when the guest function of module m returns
GuestResult(m) ==
  IF m = "ret-empty" THEN Ok(<<>>)
  ELSE IF m = "ret-value" THEN Ok(<<42>>)
  ELSE Err("unreachable")

\* what vm.run_func yields when the module has no function of that name
FuncNotFound == Err("wasm function not found")

(* --------------------------- responses -------------------------------- *)
\* format!("<prefix>: {}", e)
Format(prefix, e) == prefix \o ": " \o e

\* struct ExecuteResponse
ExecuteResponse(success, output, error, execution_time, memory_used) ==
  [success |-> success, output |-> output, error |-> error,
   execution_time |-> execution_time, memory_used |-> memory_used]

\* HttpResponse::<Status>().json(body)
Json(status, body) == [kind |-> "json", status |-> status, json |-> body]

\* an Err(actix_web::Error) returned by the handler: the framework answers
\* with the error's status and its message as a plain-text body
ErrorResponse(status, text) == [kind |-> "text", status |-> status, text |-> text]

\* the failure response of lines 39-45, 61-67, 75-81, 89-95, 103-109, 142-148
Failure(status, prefix, e, t) ==
  Json(status, ExecuteResponse(FALSE, None, Some(Format(prefix, e)), Some(t), None))

DecodeFailed(e, t) == Failure(400, "Invalid WASM base64", e, t)
ConfigFailed(e) == ErrorResponse(500, Format("Config error", e))
\* (variant: the Vm failure is answered with status 200)
VmFailed_ok(e, t) == Failure(200, "Failed to create VM", e, t)
VmFailed(e, t) == Failure(500, "Failed to create VM", e, t)
\* (variant: the load failure is answered without its execution_time)
LoadFailed_untimed(e, t) ==
  Json(400, ExecuteResponse(FALSE, None, Some(Format("Failed to load WASM", e)), None, None))
LoadFailed(e, t) == Failure(400, "Failed to load WASM", e, t)
\* (variant: the validation failure is answered with the load failure's text)
ValidateFailed_asLoad(e, t) == Failure(400, "Failed to load WASM", e, t)
ValidateFailed(e, t) == Failure(400, "Invalid WASM module", e, t)
\* (variant: the instantiation failure is answered as a bad request)
InstantiateFailed_400(e, t) == Failure(400, "Failed to instantiate WASM", e, t)
InstantiateFailed(e, t) == Failure(500, "Failed to instantiate WASM", e, t)
\* (variant: the run failure is answered without the engine's error)
RunFailed_opaque(e, t) == Failure(500, "Execution error", "failed", t)
RunFailed(e, t) == Failure(500, "Execution error", e, t)

\* the output of a successful run (lines 121-127)
Marker == [result |-> "execution successful"]
Output(results, input) == IF results = <<>> THEN input ELSE Marker

\* (variant: memory_used is filled with the size of the wasm address space)
Success_estimated(results, input, t) ==
  Json(200, ExecuteResponse(TRUE, Some(Output(results, input)), None, Some(t), Some(65536)))
Success(results, input, t) ==
  Json(200, ExecuteResponse(TRUE, Some(Output(results, input)), None, Some(t), None))

\* (variant: the request's function name is not looked at)
FunctionName_main(r) == "main"
\* req.function_name.as_deref().unwrap_or("main")
FunctionName(r) ==
  IF IsSome(r.function_name) THEN Unwrap(r.function_name) ELSE "main"

\* serde_json::to_string(&req.input) (line 114): the value input_json, which
\* nothing reads afterwards
to_string(j) ==
  IF j = [v |-> 1] THEN "{\"v\":1}"
  ELSE IF j = [v |-> 2] THEN "{\"v\":2}"
  ELSE "{\"result\":\"execution successful\"}"

\* params![]
Params(r) == <<>>

(* ----------------------------- the Vm --------------------------------- *)
\* Vm::new(Some(config)): a new instance, in a slot that holds none
\* (variant: one Vm serves every call)
NewVmId_shared(h) == 1
NewVmId(h) == CHOOSE v \in VmIds : h[v] = NoVm
NewVm(c, cfg) == [stage |-> "Created", module |-> "none", config |-> cfg, owner |-> c]

\* the Vm is a local of the handler (moved through load, validate and
\* instantiate): it is dropped when the handler returns
\* (variant: the Vm is kept when the handler returns)
DropVm_leak(h, v) == h
DropVm(h, v) == IF v = None THEN h ELSE [h EXCEPT ![Unwrap(v)] = NoVm]

InFlight == {c \in Calls : pc[c] \notin {"idle", "done"}}

(* ----------------------------- actions -------------------------------- *)
Init ==
  /\ req = [c \in Calls |-> NoReq]
  /\ pc = [c \in Calls |-> "idle"]
  /\ bytes = [c \in Calls |-> None]
  /\ config = [c \in Calls |-> None]
  /\ vm = [c \in Calls |-> None]
  /\ heap = [v \in VmIds |-> NoVm]
  /\ elapsed = [c \in Calls |-> 0]
  /\ hist = [c \in Calls |-> <<>>]
  /\ args = [c \in Calls |-> None]
  /\ resp = [c \in Calls |-> NoResp]
  /\ health = "idle"

Step(name, ok) == [step |-> name, ok |-> ok]

\* the handler returns response r: its locals, the Vm among them, are dropped
Return(c, r, step) ==
  /\ resp' = [resp EXCEPT ![c] = r]
  /\ pc' = [pc EXCEPT ![c] = "done"]
  /\ hist' = [hist EXCEPT ![c] = Append(@, Step(step, FALSE))]
  /\ heap' = DropVm(heap, vm[c])
  /\ vm' = [vm EXCEPT ![c] = None]

\* the handler goes on to the next step
Goto(c, next, step) ==
  /\ pc' = [pc EXCEPT ![c] = next]
  /\ hist' = [hist EXCEPT ![c] = Append(@, Step(step, TRUE))]
  /\ resp' = resp

\* a POST /execute request reaches a free worker, which starts execute_wasm
\* (line 33: start_time = Instant::now())
Receive(c, R) ==
  /\ pc[c] = "idle"
  /\ Cardinality(InFlight) < NWorkers
  /\ \E r \in R : req' = [req EXCEPT ![c] = r]
  /\ pc' = [pc EXCEPT ![c] = "decode"]
  /\ elapsed' = [elapsed EXCEPT ![c] = 0]
  /\ UNCHANGED <<bytes, config, vm, heap, hist, args, resp, health>>

\* lines 36-47
Decode(c) ==
  /\ pc[c] = "decode"
  /\ LET d == base64_decode(req[c].wasm) IN
       IF d.ok
       THEN /\ bytes' = [bytes EXCEPT ![c] = Some(d.val)]
            /\ Goto(c, "config", "decode")
            /\ UNCHANGED <<heap, vm>>
       ELSE /\ Return(c, DecodeFailed(d.err, elapsed[c]), "decode")
            /\ bytes' = bytes
  /\ UNCHANGED <<req, config, elapsed, args, health>>

\* lines 50-55
BuildConfig(c) ==
  /\ pc[c] = "config"
  /\ \E built \in BOOLEAN :
       IF built
       THEN /\ config' = [config EXCEPT ![c] = Some(BuiltConfig(req[c]))]
            /\ Goto(c, "vm", "config")
            /\ UNCHANGED <<heap, vm>>
       ELSE /\ Return(c, ConfigFailed("config context is null"), "config")
            /\ config' = config
  /\ UNCHANGED <<req, bytes, elapsed, args, health>>

\* lines 58-69
CreateVm(c) ==
  /\ pc[c] = "vm"
  /\ \E created \in BOOLEAN :
       IF created
       THEN /\ LET v == NewVmId(heap) IN
                 /\ heap' = [heap EXCEPT ![v] = NewVm(c, Unwrap(config[c]))]
                 /\ vm' = [vm EXCEPT ![c] = Some(v)]
            /\ Goto(c, "load", "vm")
       ELSE Return(c, VmFailed("vm context is null", elapsed[c]), "vm")
  /\ UNCHANGED <<req, bytes, config, elapsed, args, health>>

\* (variant: a failed load is noted and the handler goes on to validate)
Load_continue(c) ==
  /\ pc[c] = "load"
  /\ LET v == Unwrap(vm[c])
         l == load_wasm_from_bytes(Unwrap(bytes[c])) IN
       IF l.ok
       THEN /\ heap' = [heap EXCEPT ![v].stage = "Loaded", ![v].module = l.val]
            /\ vm' = vm
            /\ Goto(c, "validate", "load")
       ELSE /\ pc' = [pc EXCEPT ![c] = "validate"]
            /\ hist' = [hist EXCEPT ![c] = Append(@, Step("load", FALSE))]
            /\ UNCHANGED <<heap, vm, resp>>
  /\ UNCHANGED <<req, bytes, config, elapsed, args, health>>

\* lines 72-83
Load(c) ==
  /\ pc[c] = "load"
  /\ LET v == Unwrap(vm[c])
         l == load_wasm_from_bytes(Unwrap(bytes[c])) IN
       IF l.ok
       THEN /\ heap' = [heap EXCEPT ![v].stage = "Loaded", ![v].module = l.val]
            /\ vm' = vm
            /\ Goto(c, "validate", "load")
       ELSE Return(c, LoadFailed(l.err, elapsed[c]), "load")
  /\ UNCHANGED <<req, bytes, config, elapsed, args, health>>

\* lines 86-97
Validate(c) ==
  /\ pc[c] = "validate"
  /\ LET v == Unwrap(vm[c])
         r == validate(heap[v].stage, heap[v].module) IN
       IF r.ok
       THEN /\ heap' = [heap EXCEPT ![v].stage = "Validated"]
            /\ vm' = vm
            /\ Goto(c, "instantiate", "validate")
       ELSE Return(c, ValidateFailed(r.err, elapsed[c]), "validate")
  /\ UNCHANGED <<req, bytes, config, elapsed, args, health>>

\* lines 100-111
Instantiate(c) ==
  /\ pc[c] = "instantiate"
  /\ LET v == Unwrap(vm[c])
         r == instantiate(heap[v].stage, heap[v].module) IN
       IF r.ok
       THEN /\ heap' = [heap EXCEPT ![v].stage = "Instantiated"]
            /\ vm' = vm
            /\ Goto(c, "run", "instantiate")
       ELSE Return(c, InstantiateFailed(r.err, elapsed[c]), "instantiate")
  /\ UNCHANGED <<req, bytes, config, elapsed, args, health>>

\* lines 114-118: vm.run_func(function_name, params![]) is called.  The
\* engine looks the function up; when the module exports it, the guest runs.
RunFunc(c) ==
  /\ pc[c] = "run"
  /\ LET v == Unwrap(vm[c]) IN
       IF heap[v].stage = "Instantiated" /\ FunctionName(req[c]) \in Exports(heap[v].module)
       THEN /\ pc' = [pc EXCEPT ![c] = "guest"]
            /\ UNCHANGED <<heap, vm, hist, resp>>
       ELSE Return(c, RunFailed(FuncNotFound.err, elapsed[c]), "run")
  /\ args' = [args EXCEPT ![c] =
                Some([func |-> FunctionName(req[c]), params |-> Params(req[c])])]
  /\ UNCHANGED <<req, bytes, config, elapsed, health>>

\* (variant: a guest that returns after the request's timeout is answered
\* with a failure)
GuestReturn_deadline(c) ==
  /\ pc[c] = "guest"
  /\ LET v == Unwrap(vm[c])
         m == heap[v].module IN
       /\ Returns(m)
       /\ LET r == GuestResult(m) IN
            IF r.ok /\ ~(IsSome(req[c].timeout) /\ elapsed[c] > Unwrap(req[c].timeout))
            THEN /\ resp' = [resp EXCEPT ![c] = Success(r.val, req[c].input, elapsed[c])]
                 /\ pc' = [pc EXCEPT ![c] = "done"]
                 /\ hist' = [hist EXCEPT ![c] = Append(@, Step("run", TRUE))]
                 /\ heap' = DropVm(heap, vm[c])
                 /\ vm' = [vm EXCEPT ![c] = None]
            ELSE Return(c, RunFailed(IF r.ok THEN "timeout" ELSE r.err, elapsed[c]), "run")
  /\ UNCHANGED <<req, bytes, config, elapsed, args, health>>

\* the guest function returns or traps: run_func returns, and the handler
\* builds its response (lines 119-149)
GuestReturn(c) ==
  /\ pc[c] = "guest"
  /\ LET v == Unwrap(vm[c])
         m == heap[v].module IN
       /\ Returns(m)
       /\ LET r == GuestResult(m) IN
            IF r.ok
            THEN /\ resp' = [resp EXCEPT ![c] = Success(r.val, req[c].input, elapsed[c])]
                 /\ pc' = [pc EXCEPT ![c] = "done"]
                 /\ hist' = [hist EXCEPT ![c] = Append(@, Step("run", TRUE))]
                 /\ heap' = DropVm(heap, vm[c])
                 /\ vm' = [vm EXCEPT ![c] = None]
            ELSE Return(c, RunFailed(r.err, elapsed[c]), "run")
  /\ UNCHANGED <<req, bytes, config, elapsed, args, health>>

\* a millisecond passes while the guest of call c runs
Tick(c) ==
  /\ pc[c] = "guest"
  /\ elapsed[c] < MaxTime
  /\ elapsed' = [elapsed EXCEPT ![c] = @ + 1]
  /\ UNCHANGED <<req, pc, bytes, config, vm, heap, hist, args, resp, health>>

\* a GET /health request arrives
HealthRequest ==
  /\ health = "idle"
  /\ health' = "pending"
  /\ UNCHANGED <<req, pc, bytes, config, vm, heap, elapsed, hist, args, resp>>

\* lines 153-158: a free worker runs health_check
HealthCheck ==
  /\ health = "pending"
  /\ Cardinality(InFlight) < NWorkers
  /\ health' = "ok"
  /\ UNCHANGED <<req, pc, bytes, config, vm, heap, elapsed, hist, args, resp>>

Handler(c) ==
  \/ Decode(c)
  \/ BuildConfig(c)
  \/ CreateVm(c)
  \/ Load(c)
  \/ Validate(c)
  \/ Instantiate(c)
  \/ RunFunc(c)
  \/ GuestReturn(c)

\* concurrent calls (time is not followed)
Next ==
  \/ \E c \in Calls : Receive(c, ConcRequests)
  \/ \E c \in Calls : Handler(c)
  \/ HealthRequest
  \/ HealthCheck

Spec == Init /\ [][Next]_vars

\* one call, any request, with the time its guest takes
NextOne ==
  \/ Receive(1, Requests)
  \/ Handler(1)
  \/ Tick(1)
  \/ HealthRequest
  \/ HealthCheck

SpecOne == Init /\ [][NextOne]_vars

TypeOK ==
  /\ \A c \in Calls : pc[c] \in {"idle", "decode", "config", "vm", "load", "validate",
                                 "instantiate", "run", "guest", "done"}
  /\ health \in {"idle", "pending", "ok"}

\* a second POST /execute request, which differs from the request of call d
\* in memory_limit or timeout and in nothing else
ReceiveTwin(c, d) ==
  /\ req[d] # NoReq
  /\ Receive(c, {r \in Requests : /\ r.wasm = req[d].wasm
                                  /\ r.input = req[d].input
                                  /\ r.function_name = req[d].function_name
                                  /\ r # req[d]})

\* two calls whose requests differ in their limits only, with the time
\* their guests take
NextPair ==
  \/ Receive(1, Requests)
  \/ ReceiveTwin(2, 1)
  \/ \E c \in {1, 2} : Handler(c)
  \/ \E c \in {1, 2} : Tick(c)

SpecPair == Init /\ [][NextPair]_vars

\* concurrent calls; the thread of a worker runs the handler it has
\* started, and a free worker takes a pending /health request
FairSpec ==
  /\ Spec
  /\ WF_vars(HealthCheck)
  /\ \A c \in Calls : WF_vars(Handler(c))

\* the thread of a worker runs the handler it has started: a step of the
\* handler that can be taken is taken
FairSpecOne == SpecOne /\ WF_vars(Handler(1))

(* ------------------- notions the properties use ----------------------- *)
Done(c) == pc[c] = "done"
Last(h) == h[Len(h)]
IsFailure(r) == r.kind = "text" \/ (r.kind = "json" /\ ~r.json.success)
IsSuccess(r) == r.kind = "json" /\ r.json.success
HasPrefix(s, p) == Len(s) >= Len(p) /\ SubSeq(s, 1, Len(p)) = p

(* ------------------------------- C1 ----------------------------------- *)
\* C1: a call whose guest has not returned by the timeout of its request
\* is not awaited past that deadline, and a call that ends after the
\* deadline ends as a failure (the timeout), whatever the guest returned.
C1_TimeoutEnforced ==
  \A c \in Calls :
    (req[c] # NoReq /\ IsSome(req[c].timeout)) =>
      /\ (pc[c] = "guest" => elapsed[c] <= Unwrap(req[c].timeout))
      /\ (Done(c) /\ elapsed[c] > Unwrap(req[c].timeout) => IsFailure(resp[c]))

(* ------------------------------- C2 ----------------------------------- *)
\* C2: every call that has started eventually has its response.
C2_EventuallyResponds ==
  \A c \in Calls : (pc[c] # "idle") ~> (Done(c) /\ resp[c] # NoResp)

(* ------------------------------- C3 ----------------------------------- *)
Order == <<"decode", "config", "vm", "load", "validate", "instantiate", "run">>

\* C3: the steps of a call are attempted in the fixed order (decode, config,
\* vm,) load, validate, instantiate, run, each at most once; a step is
\* attempted only when every earlier one succeeded; a failed step ends the
\* call with a failure response and nothing is attempted after it.
C3_StageOrder ==
  \A c \in Calls :
    LET h == hist[c] IN
      /\ Len(h) <= Len(Order)
      /\ \A i \in 1..Len(h) : h[i].step = Order[i]
      /\ \A i \in 1..(Len(h) - 1) : h[i].ok
      /\ (Len(h) > 0 /\ ~Last(h).ok) => (Done(c) /\ IsFailure(resp[c]))
      /\ (pc[c] \in {"load", "validate", "instantiate", "run"}) =>
           (pc[c] = Order[Len(h) + 1])
      /\ (pc[c] = "guest") => (Len(h) = 6)

\* a call that loaded its module, failed validation and ended there
C3_Witness ==
  \E c \in Calls :
    /\ Done(c)
    /\ Len(hist[c]) = 5
    /\ hist[c][4] = Step("load", TRUE)
    /\ hist[c][5] = Step("validate", FALSE)

(* ------------------------------- C4 ----------------------------------- *)
\* C4: every failure of a call, a failure to build the configuration
\* included, is answered with the structured response: success = false,
\* an error string and execution_time.
C4_StructuredFailure ==
  \A c \in Calls :
    (Done(c) /\ ~IsSuccess(resp[c])) =>
      /\ resp[c].kind = "json"
      /\ resp[c].json.success = FALSE
      /\ IsSome(resp[c].json.error)
      /\ IsSome(resp[c].json.execution_time)

(* ------------------------------- C5 ----------------------------------- *)
\* C5: in every ExecuteResponse the handler builds, output is present
\* exactly when success is true, error exactly when success is false, and
\* execution_time always.
C5_ResponseShape ==
  \A c \in Calls :
    resp[c].kind = "json" =>
      LET b == resp[c].json IN
        /\ IsSome(b.output) <=> b.success
        /\ IsSome(b.error) <=> ~b.success
        /\ IsSome(b.execution_time)

\* a call answered with a failure built after a step failed
C5_Witness ==
  \E c \in Calls :
    /\ Done(c)
    /\ resp[c].kind = "json"
    /\ ~resp[c].json.success
    /\ IsSome(resp[c].json.error)
    /\ resp[c].json.output = None

(* ------------------------------- C6 ----------------------------------- *)
\* the text each step's failure response starts with
StageTag(step) ==
  CASE step = "decode" -> "Invalid WASM base64"
    [] step = "vm" -> "Failed to create VM"
    [] step = "load" -> "Failed to load WASM"
    [] step = "validate" -> "Invalid WASM module"
    [] step = "instantiate" -> "Failed to instantiate WASM"
    [] step = "run" -> "Execution error"

\* the steps an error string can be read as the failure of
StagesOf(err) ==
  {st \in {"decode", "vm", "load", "validate", "instantiate", "run"} :
     HasPrefix(err, StageTag(st) \o ": ")}

\* C6: the error string of a failure response names the step that failed,
\* and no other: the failed step can be read off the string alone (so a
\* validation failure is not reported as a load or instantiation failure).
C6_StageTagged ==
  \A c \in Calls :
    (Done(c) /\ resp[c].kind = "json" /\ ~resp[c].json.success) =>
      StagesOf(Unwrap(resp[c].json.error)) = {Last(hist[c]).step}

\* a call whose module failed validation, answered with the validation tag
C6_Witness ==
  \E c \in Calls :
    /\ Done(c)
    /\ Last(hist[c]) = Step("validate", FALSE)
    /\ resp[c].kind = "json"
    /\ StagesOf(Unwrap(resp[c].json.error)) = {"validate"}

(* ------------------------------- C7 ----------------------------------- *)
\* how a response's error string classifies a failed run
RunErrorOf(err) ==
  LET tag == "Execution error: " IN
    IF ~HasPrefix(err, tag) THEN "none"
    ELSE IF SubSeq(err, Len(tag) + 1, Len(err)) = FuncNotFound.err
         THEN "NoSuchFunction"
         ELSE "Trap"

Instantiated(c) == Len(hist[c]) >= 6 /\ hist[c][6] = Step("instantiate", TRUE)

\* C7: a call whose module instantiated and lacks the requested function is
\* answered with a failure whose error reads as "no such function"; a call
\* whose guest trapped is answered with one that reads as a trap.
C7_NoSuchFunction ==
  \A c \in Calls :
    (Done(c) /\ Instantiated(c)) =>
      /\ (FunctionName(req[c]) \notin Exports(req[c].wasm)) =>
            /\ resp[c].kind = "json"
            /\ ~resp[c].json.success
            /\ RunErrorOf(Unwrap(resp[c].json.error)) = "NoSuchFunction"
      /\ (FunctionName(req[c]) \in Exports(req[c].wasm) /\ req[c].wasm = "trap") =>
            /\ resp[c].kind = "json"
            /\ ~resp[c].json.success
            /\ RunErrorOf(Unwrap(resp[c].json.error)) = "Trap"

\* a call for function f of a module that exports only main
C7_Witness ==
  \E c \in Calls :
    /\ Done(c)
    /\ Instantiated(c)
    /\ req[c].function_name = Some("f")
    /\ RunErrorOf(Unwrap(resp[c].json.error)) = "NoSuchFunction"

(* ------------------------------- C8 ----------------------------------- *)
\* C8: whenever a guest executes, its Vm runs under a memory ceiling and a
\* timeout, which are the request's when the request supplies them.
C8_LimitsInForce ==
  \A c \in Calls :
    pc[c] = "guest" =>
      LET cfg == heap[Unwrap(vm[c])].config IN
        /\ IsSome(cfg.memory_limit)
        /\ IsSome(cfg.timeout)
        /\ IsSome(req[c].memory_limit) => cfg.memory_limit = req[c].memory_limit
        /\ IsSome(req[c].timeout) => cfg.timeout = req[c].timeout

(* ------------------------------- C9 ----------------------------------- *)
\* the Vm instances that exist and were created by call c
VmsOf(c) == {v \in VmIds : heap[v] # NoVm /\ heap[v].owner = c}
\* how many times Vm::new succeeded in call c
Creations(c) ==
  Cardinality({i \in 1..Len(hist[c]) : hist[c][i] = Step("vm", TRUE)})

\* every Vm that exists is held by the call that created it, and by no other
Owned ==
  /\ \A v \in VmIds : heap[v] # NoVm => vm[heap[v].owner] = Some(v)
  /\ \A c, d \in Calls : (c # d /\ IsSome(vm[c])) => vm[c] # vm[d]
  /\ \A c \in Calls : IsSome(vm[c]) => VmsOf(c) = {Unwrap(vm[c])}

\* C9 as stated: every call that has returned created exactly one Vm, which
\* only it held and which no longer exists.
C9_ExactlyOneVm ==
  /\ Owned
  /\ \A c \in Calls :
       Done(c) => (Creations(c) = 1 /\ VmsOf(c) = {} /\ vm[c] = None)

\* C9 amended: a call creates at most one Vm: none before Vm::new has
\* succeeded, exactly one from then until it returns; the Vm is held by
\* that call alone; no Vm of a call exists once the call has returned.
C9_AtMostOneVm ==
  /\ Owned
  /\ \A c \in Calls :
       /\ Creations(c) <= 1
       /\ Cardinality(VmsOf(c)) <= 1
       /\ (pc[c] \in {"idle", "decode", "config", "vm"}) =>
            (Creations(c) = 0 /\ VmsOf(c) = {} /\ vm[c] = None)
       /\ (pc[c] \in {"load", "validate", "instantiate", "run", "guest"}) =>
            (Creations(c) = 1 /\ IsSome(vm[c]))
       /\ Done(c) => (VmsOf(c) = {} /\ vm[c] = None)

\* a call has returned after creating its Vm, while another call holds one
C9_Witness ==
  \E c, d \in Calls :
    /\ c # d
    /\ Done(c) /\ Creations(c) = 1 /\ VmsOf(c) = {}
    /\ pc[d] = "guest" /\ Cardinality(VmsOf(d)) = 1

(* ------------------------------- C10 ---------------------------------- *)
\* C10: the output of a call is its own input or the fixed marker; of two
\* calls with the same module and different inputs, one that created its Vm
\* and has returned succeeded with its own input as output, not the other's.
C10_NoCrossTalk ==
  \A c \in Calls :
    /\ IsSuccess(resp[c]) =>
         resp[c].json.output \in {Some(req[c].input), Some(Marker)}
    /\ \A d \in Calls \ {c} :
         ( /\ Done(c) /\ Creations(c) = 1
           /\ req[d] # NoReq
           /\ req[c].wasm = req[d].wasm
           /\ req[c].input # req[d].input ) =>
             /\ IsSuccess(resp[c])
             /\ resp[c].json.output = Some(req[c].input)
             /\ resp[c].json.output # Some(req[d].input)

\* two calls with the same module and different inputs have both returned
C10_Witness ==
  \E c, d \in Calls :
    /\ c # d
    /\ Done(c) /\ Done(d)
    /\ req[c].wasm = req[d].wasm
    /\ req[c].input # req[d].input
    /\ IsSuccess(resp[c]) /\ IsSuccess(resp[d])

(* ------------------------------- C11 ---------------------------------- *)
\* C11: the parameters run_func is called with carry the call's input in
\* its serialized form.
C11_InputPassed ==
  \A c \in Calls :
    IsSome(args[c]) =>
      LET ps == Unwrap(args[c]).params IN
        \E i \in 1..Len(ps) : ps[i] = to_string(req[c].input)

(* ------------------------------- C14 ---------------------------------- *)
\* C14: the function run_func is called for is the request's function_name
\* when the request has one and "main" when it has none.
C14_FunctionName ==
  \A c \in Calls :
    IsSome(args[c]) =>
      LET f == Unwrap(args[c]).func IN
        /\ IsSome(req[c].function_name) => f = Unwrap(req[c].function_name)
        /\ req[c].function_name = None => f = "main"

\* run_func has been called for a request without function_name, and the
\* guest's main runs
C14_Witness ==
  \E c \in Calls :
    /\ pc[c] = "guest"
    /\ req[c].function_name = None
    /\ Unwrap(args[c]).func = "main"

(* ------------------------------- C12 ---------------------------------- *)
\* C12: a success is answered with status 200; a failure with a 4xx status
\* exactly when the step that failed is decode, load or validate (the
\* caller's payload is malformed), and with a 5xx status when it is config,
\* vm, instantiate or run.
C12_StatusClass ==
  \A c \in Calls :
    Done(c) =>
      LET st == resp[c].status
          last == Last(hist[c]).step IN
        /\ IsSuccess(resp[c]) => st = 200
        /\ IsFailure(resp[c]) =>
             /\ (st \in 400..499) <=> (last \in {"decode", "load", "validate"})
             /\ (st \in 500..599) <=> (last \in {"config", "vm", "instantiate", "run"})
             /\ (last = "decode") => (req[c].wasm = "not-base64")
             /\ (last = "load") => (req[c].wasm = "malformed")
             /\ (last = "validate") => (req[c].wasm = "ill-typed")

\* a module with an unresolved import, answered with a server error
C12_Witness ==
  \E c \in Calls :
    /\ Done(c)
    /\ req[c].wasm = "unresolved-import"
    /\ Last(hist[c]) = Step("instantiate", FALSE)
    /\ resp[c].status = 500

(* ------------------------------- C15 ---------------------------------- *)
\* C15: memory_used is absent from every response the handler builds, on
\* success and on failure (so it never exceeds the request's memory_limit).
C15_MemoryUsed ==
  \A c \in Calls :
    resp[c].kind = "json" =>
      /\ resp[c].json.memory_used = None
      /\ (IsSome(resp[c].json.memory_used) /\ IsSome(req[c].memory_limit)) =>
            Unwrap(resp[c].json.memory_used) <= Unwrap(req[c].memory_limit)

\* a successful call whose request set a memory_limit
C15_Witness ==
  \E c \in Calls :
    /\ Done(c)
    /\ IsSuccess(resp[c])
    /\ IsSome(req[c].memory_limit)
    /\ resp[c].json.memory_used = None

(* ------------------------------- C16 ---------------------------------- *)
\* C16: a success whose output is the echoed input (the guest returned no
\* value) differs from every success the handler gives for a guest that
\* returned a value.
C16_EchoDistinguished ==
  \A c \in Calls :
    (IsSuccess(resp[c]) /\ req[c].wasm = "ret-empty") =>
      \A i \in Inputs, t \in 0..MaxTime :
        resp[c] # Success(GuestResult("ret-value").val, i, t)

(* ------------------------------- C17 ---------------------------------- *)
AllOk(c) == Len(hist[c]) = Len(Order) /\ \A i \in 1..Len(hist[c]) : hist[c][i].ok

\* C17: a call is answered with success = true exactly when all seven steps
\* succeeded (which takes a module whose main returns), and with status 200
\* exactly when success is true.
C17_SuccessIff ==
  \A c \in Calls :
    Done(c) =>
      /\ IsSuccess(resp[c]) <=> AllOk(c)
      /\ (resp[c].status = 200) <=> IsSuccess(resp[c])
      /\ IsSuccess(resp[c]) =>
           (req[c].wasm \in {"ret-empty", "ret-value"} /\ FunctionName(req[c]) = "main")
      /\ (req[c].wasm \in {"ret-empty", "ret-value"} /\ FunctionName(req[c]) = "main"
            /\ Creations(c) = 1) => IsSuccess(resp[c])

\* a call that failed at Vm::new, answered with success = false and not 200
C17_Witness ==
  \E c \in Calls :
    /\ Done(c)
    /\ Last(hist[c]) = Step("vm", FALSE)
    /\ resp[c].kind = "json"
    /\ ~resp[c].json.success
    /\ resp[c].status # 200

(* ------------------------------- C19 ---------------------------------- *)
\* C19: a call whose wasm field is not base64 ends at the decode step with
\* a 400 failure; it builds no configuration and creates no Vm.
C19_DecodeFailure ==
  \A c \in Calls :
    (req[c] # NoReq /\ req[c].wasm = "not-base64" /\ pc[c] # "decode") =>
      /\ Done(c)
      /\ hist[c] = <<Step("decode", FALSE)>>
      /\ resp[c].kind = "json" /\ resp[c].status = 400 /\ ~resp[c].json.success
      /\ config[c] = None
      /\ vm[c] = None /\ VmsOf(c) = {} /\ Creations(c) = 0

\* a call has been answered for a wasm field that is not base64
C19_Witness ==
  \E c \in Calls :
    /\ Done(c)
    /\ req[c].wasm = "not-base64"
    /\ resp[c].status = 400
    /\ VmsOf(c) = {}

(* ------------------------------- C13 ---------------------------------- *)
\* C13: a /health request that has arrived is eventually answered, whatever
\* the /execute calls in flight are doing.
C13_HealthAnswered == (health = "pending") ~> (health = "ok")

(* ------------------------------- C18 ---------------------------------- *)
\* what a response tells of the outcome: all of it but execution_time
Outcome(r) ==
  IF r.kind = "json"
  THEN [status |-> r.status, success |-> r.json.success,
        output |-> r.json.output, error |-> r.json.error]
  ELSE [status |-> r.status, text |-> r.text]

\* ConfigBuilder::build and Vm::new did the same in calls c and d
SameEngine(c, d) ==
  \A i \in 2..3 :
    /\ (Len(hist[c]) >= i) <=> (Len(hist[d]) >= i)
    /\ (Len(hist[c]) >= i /\ Len(hist[d]) >= i) => hist[c][i] = hist[d][i]

\* the requests of c and d differ in memory_limit and timeout at most
Twins(c, d) ==
  /\ req[c] # NoReq /\ req[d] # NoReq
  /\ req[c].wasm = req[d].wasm
  /\ req[c].input = req[d].input
  /\ req[c].function_name = req[d].function_name

\* C18: two calls whose requests differ in memory_limit and timeout only,
\* and for which the engine did the same, have the same outcome (status,
\* success, output, error text).
C18_LimitsIrrelevant ==
  \A c, d \in Calls :
    (Done(c) /\ Done(d) /\ Twins(c, d) /\ SameEngine(c, d)) =>
      Outcome(resp[c]) = Outcome(resp[d])

\* two calls that differ in their timeout, whose guests both returned after
\* the timeout one of them set
C18_Witness ==
  \E c, d \in Calls :
    /\ c # d /\ Done(c) /\ Done(d) /\ Twins(c, d)
    /\ IsSome(req[c].timeout) /\ req[d].timeout = None
    /\ elapsed[c] > Unwrap(req[c].timeout) /\ elapsed[d] > Unwrap(req[c].timeout)
    /\ IsSuccess(resp[c]) /\ IsSuccess(resp[d])
====
